---- MODULE Spec2Model ----
(***************************************************************************)
(* A model of scripts/monitor_system.py (SystemMonitor: one monitoring     *)
(* cycle = collect, store_metrics, check_thresholds_and_alert,             *)
(* cleanup_old_data over an SQLite store) and of the readers of            *)
(* scripts/generate_reports.py (ReportGenerator) that query the same store *)
(* from another process.                                                   *)
(*                                                                         *)
(* Texts: a timestamp text is a sequence whose first element stands for    *)
(* the fixed-width "YYYY-MM-DD HH:MM:SS" part (it orders like the second   *)
(* count) and whose optional second element is the ".ffffff" fraction.     *)
(* usage_percent is kept in hundredths of a percent (round(x, 2)).         *)
(***************************************************************************)
EXTENDS Integers, Sequences, FiniteSets, TLC

VARIABLES
    config,          \* self.config of the SystemMonitor, and the host's UTC offset
    now,             \* the wall clock, in UTC: [sec, micro]
    db,              \* the committed content of the SQLite file, and its sqlite_sequence
    pc,              \* position of run_monitoring_cycle
    cycle,           \* number of invocations of run_monitoring_cycle so far
    disk_data,       \* locals of run_monitoring_cycle
    inode_data,
    system_data,
    filesystem_data,
    alerts,          \* local of check_thresholds_and_alert
    outcome,         \* how the last invocation ended: "none", "running", "completed", "raised"
    log,             \* loggers that logged an error during the current invocation
    emails,          \* number of alert mails handed to the SMTP server
    faults,          \* unusual answers the environment may still give
    phases,          \* history: the calls run_monitoring_cycle made in this invocation
    hist,            \* history: the store at the start of the invocation and before
                     \* cleanup, the failing step of the last write transaction, and
                     \* the cutoffs cleanup_old_data computed
    answers,         \* history: what the collaborators answered in this invocation
    rpc,             \* position of the report process
    reports,         \* number of report computations started
    health_data,     \* locals of generate_trend_analysis / analyze_cleanup_effectiveness
    report           \* the data the last finished report computation was built from

vars == <<config, now, db, pc, cycle, disk_data, inode_data, system_data,
          filesystem_data, alerts, outcome, log, emails, faults, phases, hist,
          answers, rpc, reports, health_data, report>>

monitorVars == <<db, pc, cycle, disk_data, inode_data, system_data, filesystem_data,
                 alerts, outcome, log, emails, faults, phases, hist, answers>>

readerVars == <<rpc, reports, health_data, report>>

----------------------------------------------------------------------------
(* Bounds of the model *)

MaxCycles == 2

MaxFaults == 1

MaxReports == 1

MaxSec == 0

MaxHealthSeries == 3

MaxDiskSeries == 2

(* Program constants *)

AlertRetentionDays == 90

CriticalPercent == 95

DefaultThreshold == 85

DefaultRetentionDays == 30

SecondsPerDay == 86400

ReportDays == 30

\* The 0.1 of the trend labels, in hundredths.
TrendBand == 10

\* tail(7)
RecentSamples == 7

\* The 1 of `usage_diff < -1`, in hundredths.
CleanupDrop == 100

\* The 5 of `trend > 5`, in hundredths.
PoorTrend == 500

monitored_paths == <<"/", "/home">>

Tables == {"disk_usage", "inode_usage", "system_health", "filesystem_health"}

\* Days (from the model's time origin) at which the clock is observed.
DayMarks == {0, 30, 90, 120}

Micros == {0, 500000}

ClockValues ==
    {[sec |-> d * SecondsPerDay + s, micro |-> m] :
        d \in DayMarks, s \in 0..MaxSec, m \in Micros}

RetentionChoices == {DefaultRetentionDays, 120}

\* Offset of the host's local time from UTC, in seconds.
TzOffsets == {0, -18000}

ClockLess(a, b) == a.sec < b.sec \/ (a.sec = b.sec /\ a.micro < b.micro)

----------------------------------------------------------------------------
(* Time texts *)

\* SQLite's CURRENT_TIMESTAMP: UTC, whole seconds.
CURRENT_TIMESTAMP(clock) == <<clock.sec>>

\* datetime.now(): naive local time.
datetime_now(clock, tz) == [sec |-> clock.sec + tz, micro |-> clock.micro]

\* dt - timedelta(days=n)
minus_days(dt, n) == [dt EXCEPT !.sec = @ - n * SecondsPerDay]

\* sqlite3's datetime adapter, dt.isoformat(" "): the fraction is left out when it is 0.
isoformat(dt) == IF dt.micro = 0 THEN <<dt.sec>> ELSE <<dt.sec, dt.micro>>

\* SQLite's datetime('now', '-N days'): UTC, whole seconds.
sql_datetime_now(clock, days) == <<clock.sec - days * SecondsPerDay>>

\* SQLite's comparison of two TEXT values (memcmp, the shorter first on a tie).
RECURSIVE TextLess(_, _)
TextLess(a, b) ==
    IF a = <<>> THEN b # <<>>
    ELSE IF b = <<>> THEN FALSE
    ELSE IF Head(a) # Head(b) THEN Head(a) < Head(b)
    ELSE TextLess(Tail(a), Tail(b))

----------------------------------------------------------------------------
(* Numbers *)

\* round(num / den * 100, 2) in hundredths, ties to even (den > 0).
Round2Percent(num, den) ==
    LET n == num * 10000
        q == n \div den
        r == n % den
    IN  IF 2 * r > den \/ (2 * r = den /\ q % 2 = 1) THEN q + 1 ELSE q

Percent(p) == p * 100

----------------------------------------------------------------------------
(* The collaborators' answers (inputs of the model) *)

PathSet == {monitored_paths[i] : i \in 1..Len(monitored_paths)}

\* os.path.exists(path) and psutil.disk_usage(path)
DiskOutcomes ==
    {[kind |-> "ok", total |-> 100, used |-> 80],
     [kind |-> "ok", total |-> 100, used |-> 96],
     [kind |-> "odd", total |-> 0, used |-> 0],
     [kind |-> "raise", total |-> 0, used |-> 0],
     [kind |-> "absent", total |-> 0, used |-> 0]}

\* os.path.exists(path) and `df -i path`
InodeOutcomes ==
    {[kind |-> "ok", total |-> 1000, used |-> 500],
     [kind |-> "odd", total |-> 1000, used |-> 900],
     [kind |-> "odd", total |-> 0, used |-> 0],
     [kind |-> "nonzero", total |-> 0, used |-> 0],
     [kind |-> "raise", total |-> 0, used |-> 0],
     [kind |-> "absent", total |-> 0, used |-> 0]}

\* psutil.cpu_percent, psutil.virtual_memory, os.getloadavg
SystemOutcomes ==
    {[kind |-> "ok", cpu |-> 2000, memory |-> 4000, load |-> 100],
     [kind |-> "raise", cpu |-> 0, memory |-> 0, load |-> 0]}

\* os.path.exists(path), `df -T path` and, on ext2/3/4, `tune2fs -l path`
FsOutcomes ==
    {[kind |-> "ok", df |-> "ext4", tune |-> "ok", errors |-> 0],
     [kind |-> "odd", df |-> "ext4", tune |-> "ok", errors |-> 2],
     [kind |-> "fail", df |-> "nonzero", tune |-> "ok", errors |-> 0],
     [kind |-> "fail", df |-> "raise", tune |-> "ok", errors |-> 0],
     [kind |-> "fail", df |-> "ext4", tune |-> "raise", errors |-> 0],
     [kind |-> "absent", df |-> "raise", tune |-> "ok", errors |-> 0]}

\* The answers that are not the usual one ("ok"): a failure ("raise", "nonzero",
\* "fail"), a missing path ("absent") or an unusual reading ("odd").
FaultCount(outs) == Cardinality({p \in DOMAIN outs : outs[p].kind # "ok"})

\* A Python list built by appending the results that are not None.
Compact(results) ==
    LET kept == SelectSeq(results, LAMBDA r : r # <<>>)
    IN  [i \in 1..Len(kept) |-> kept[i][1]]

----------------------------------------------------------------------------
(* Collectors: the result is <<>> for None and <<dict>> for a dict *)

\* A collector that answers a failure with a zero sample instead of None.
get_disk_usage_zero_on_error(path, out) ==
    IF out.kind \in {"ok", "odd"} /\ out.total # 0
    THEN <<[path |-> path, usage_percent |-> Round2Percent(out.used, out.total)]>>
    ELSE <<[path |-> path, usage_percent |-> 0]>>

get_disk_usage(path, out) ==
    IF out.kind \in {"ok", "odd"} /\ out.total # 0
    THEN <<[path |-> path, usage_percent |-> Round2Percent(out.used, out.total)]>>
    ELSE <<>>

get_disk_usage_logs(out) ==
    out.kind = "raise" \/ (out.kind \in {"ok", "odd"} /\ out.total = 0)

get_inode_usage(path, out) ==
    IF out.kind \in {"ok", "odd"}
    THEN <<[path |-> path,
            usage_percent |-> IF out.total > 0
                              THEN Round2Percent(out.used, out.total) ELSE 0]>>
    ELSE <<>>

get_inode_usage_logs(out) == out.kind = "raise"

get_system_health(out) ==
    IF out.kind = "ok"
    THEN <<[cpu_percent |-> out.cpu, memory_percent |-> out.memory,
            load_avg_1 |-> out.load]>>
    ELSE <<>>

check_filesystem_health_raises(out) ==
    out.df = "raise" \/ (out.df \in {"ext2", "ext3", "ext4"} /\ out.tune = "raise")

check_filesystem_health(path, out) ==
    LET filesystem == IF out.df \in {"nonzero", "raise"} THEN "unknown" ELSE out.df
        errors == IF filesystem \in {"ext2", "ext3", "ext4"} /\ out.tune = "ok"
                  THEN out.errors ELSE 0
    IN  IF check_filesystem_health_raises(out)
        THEN <<[path |-> path, filesystem |-> "unknown",
                status |-> "check_failed", errors |-> -1]>>
        ELSE <<[path |-> path, filesystem |-> filesystem,
                status |-> IF errors > 0 THEN "errors_detected" ELSE "healthy",
                errors |-> errors]>>

\* The three collection loops of run_monitoring_cycle over monitored_paths.
collect_disk(outs) ==
    Compact([i \in 1..Len(monitored_paths) |->
        IF outs[monitored_paths[i]].kind = "absent" THEN <<>>
        ELSE get_disk_usage(monitored_paths[i], outs[monitored_paths[i]])])

collect_inode(outs) ==
    Compact([i \in 1..Len(monitored_paths) |->
        IF outs[monitored_paths[i]].kind = "absent" THEN <<>>
        ELSE get_inode_usage(monitored_paths[i], outs[monitored_paths[i]])])

collect_filesystem(outs) ==
    Compact([i \in 1..Len(monitored_paths) |->
        IF outs[monitored_paths[i]].kind = "absent" THEN <<>>
        ELSE check_filesystem_health(monitored_paths[i], outs[monitored_paths[i]])])

----------------------------------------------------------------------------
(* The store: tables of rows [id, timestamp, cycle, cols]; cycle is a history *)
(* field naming the invocation that wrote the row.                            *)

EmptyDb ==
    [disk_usage |-> {}, inode_usage |-> {}, system_health |-> {},
     filesystem_health |-> {}, alerts |-> {},
     seq |-> [disk_usage |-> 0, inode_usage |-> 0, system_health |-> 0,
              filesystem_health |-> 0, alerts |-> 0]]

\* An INSERT that merges a sample into a stored row with the same values and time.
Insert_merging(work, table, cols, clock, cyc) ==
    IF \E r \in work[table] : r.cols = cols /\ r.timestamp = CURRENT_TIMESTAMP(clock)
    THEN work
    ELSE [work EXCEPT
            ![table] = @ \cup {[id |-> work.seq[table] + 1,
                                timestamp |-> CURRENT_TIMESTAMP(clock),
                                cycle |-> cyc, cols |-> cols]},
            !.seq[table] = @ + 1]

\* cursor.execute('INSERT INTO <table> ...') inside the open transaction `work`.
Insert(work, table, cols, clock, cyc) ==
    [work EXCEPT
        ![table] = @ \cup {[id |-> work.seq[table] + 1,
                            timestamp |-> CURRENT_TIMESTAMP(clock),
                            cycle |-> cyc, cols |-> cols]},
        !.seq[table] = @ + 1]

RECURSIVE InsertAll(_, _, _, _)
InsertAll(work, stmts, clock, cyc) ==
    IF stmts = <<>> THEN work
    ELSE InsertAll(Insert(work, Head(stmts).table, Head(stmts).cols, clock, cyc),
                   Tail(stmts), clock, cyc)

\* A connection in autocommit mode: what was inserted before the failure stays.
Rollback_autocommit(committed, work) == work

\* Leaving `with sqlite3.connect(...) as conn` by an exception: the connection's
\* context manager rolls the open transaction back.
Rollback(committed, work) == committed

\* conn.commit()
Commit(committed, work) == work

\* A database file that was just created: no table yet.
NoStore == [seq |-> <<>>]

\* CREATE TABLE IF NOT EXISTS <table> (id INTEGER PRIMARY KEY AUTOINCREMENT, ...)
create_table_if_not_exists(work, table) ==
    IF table \in DOMAIN work THEN work
    ELSE [x \in DOMAIN work \cup {table} |->
            IF x = table THEN {}
            ELSE IF x = "seq"
                 THEN [y \in DOMAIN work.seq \cup {table} |->
                          IF y = table THEN 0 ELSE work.seq[y]]
                 ELSE work[x]]

\* The five CREATE TABLE statements of init_database, in its order.
create_tables(work) ==
    create_table_if_not_exists(
      create_table_if_not_exists(
        create_table_if_not_exists(
          create_table_if_not_exists(
            create_table_if_not_exists(work, "disk_usage"),
            "inode_usage"),
          "system_health"),
        "filesystem_health"),
      "alerts")

\* An initialisation that drops the tables before it creates them.
init_database_recreating(committed) == Commit(committed, create_tables(NoStore))

\* init_database, run by the constructor of SystemMonitor in every invocation.
init_database(committed) == Commit(committed, create_tables(committed))

\* Not a step of any transaction.
NoFailure == 0 - 1

\* One write transaction: connect, the INSERTs in order, commit.  fail_at names
\* the step that raises: 0 the connect, k the k-th INSERT, Len(stmts) + 1 the
\* commit, NoFailure none.  The result is the committed store.
Transaction(committed, stmts, clock, cyc, fail_at) ==
    IF fail_at = NoFailure THEN Commit(committed, InsertAll(committed, stmts, clock, cyc))
    ELSE IF fail_at = 0 THEN committed
    ELSE Rollback(committed,
                  InsertAll(committed, SubSeq(stmts, 1, fail_at - 1), clock, cyc))

FailPoints(stmts) == {NoFailure} \cup 0..(Len(stmts) + 1)

\* The INSERT statements store_metrics executes, in its order.
store_metrics_stmts(disk, inode, system, filesystem) ==
    [i \in 1..Len(disk) |-> [table |-> "disk_usage", cols |-> disk[i]]]
    \o [i \in 1..Len(inode) |-> [table |-> "inode_usage", cols |-> inode[i]]]
    \o [i \in 1..Len(system) |-> [table |-> "system_health", cols |-> system[i]]]
    \o [i \in 1..Len(filesystem) |->
            [table |-> "filesystem_health", cols |-> filesystem[i]]]

store_metrics(committed, disk, inode, system, filesystem, clock, cyc, fail_at) ==
    Transaction(committed, store_metrics_stmts(disk, inode, system, filesystem),
                clock, cyc, fail_at)

----------------------------------------------------------------------------
(* Threshold evaluation and alerts *)

severity(usage_percent) ==
    IF usage_percent > Percent(CriticalPercent) THEN "critical" ELSE "warning"

\* An evaluation that also alerts on a sample exactly at its threshold.
make_alerts_at_threshold(data, alert_type, threshold) ==
    LET over == SelectSeq(data, LAMBDA d : d.usage_percent >= Percent(threshold))
    IN  [i \in 1..Len(over) |->
            [alert_type |-> alert_type,
             severity |-> severity(over[i].usage_percent),
             path |-> over[i].path,
             usage_percent |-> over[i].usage_percent,
             threshold |-> threshold]]

\* The alert dicts of check_thresholds_and_alert; the message text is kept as the
\* values it is formatted from.
make_alerts(data, alert_type, threshold) ==
    LET over == SelectSeq(data, LAMBDA d : d.usage_percent > Percent(threshold))
    IN  [i \in 1..Len(over) |->
            [alert_type |-> alert_type,
             severity |-> severity(over[i].usage_percent),
             path |-> over[i].path,
             usage_percent |-> over[i].usage_percent,
             threshold |-> threshold]]

check_thresholds(disk, inode, cfg) ==
    make_alerts(disk, "disk_usage", cfg.disk_usage_threshold)
    \o make_alerts(inode, "inode_usage", cfg.inode_usage_threshold)

\* A store that skips an alert when the alerts table already has one of the same
\* kind for the same path.
store_alerts_stmts_deduplicated(alertList) ==
    LET fresh == SelectSeq(alertList, LAMBDA a :
                    ~\E r \in db.alerts : /\ r.cols.alert_type = a.alert_type
                                          /\ r.cols.path = a.path)
    IN  [i \in 1..Len(fresh) |-> [table |-> "alerts", cols |-> fresh[i]]]

\* The INSERT statements store_alerts executes, in its order.
store_alerts_stmts(alertList) ==
    [i \in 1..Len(alertList) |-> [table |-> "alerts", cols |-> alertList[i]]]

\* Samples and alerts written in one transaction: a failure undoes the samples too.
store_alerts_same_transaction(committed, alertList, clock, cyc, fail_at) ==
    IF fail_at = NoFailure
    THEN Transaction(committed, store_alerts_stmts(alertList), clock, cyc, fail_at)
    ELSE hist.start

store_alerts(committed, alertList, clock, cyc, fail_at) ==
    Transaction(committed, store_alerts_stmts(alertList), clock, cyc, fail_at)

----------------------------------------------------------------------------
(* Retention *)

retention_date(clock, cfg) ==
    isoformat(minus_days(datetime_now(clock, cfg.tz_offset), cfg.retention_days))

alert_retention_date(clock, cfg) ==
    isoformat(minus_days(datetime_now(clock, cfg.tz_offset), AlertRetentionDays))

\* DELETE ... WHERE timestamp <= ?
DeleteOlder_inclusive(rows, cutoff) == {r \in rows : TextLess(cutoff, r.timestamp)}

\* DELETE FROM <table> WHERE timestamp < ?  : the rows that stay.
DeleteOlder(rows, cutoff) == {r \in rows : ~TextLess(r.timestamp, cutoff)}

\* The DELETE statements of cleanup_old_data, and its commit.
cleanup_deletes(committed, clock, cfg) ==
    [committed EXCEPT
        !.disk_usage = DeleteOlder(@, retention_date(clock, cfg)),
        !.inode_usage = DeleteOlder(@, retention_date(clock, cfg)),
        !.system_health = DeleteOlder(@, retention_date(clock, cfg)),
        !.filesystem_health = DeleteOlder(@, retention_date(clock, cfg)),
        !.alerts = DeleteOlder(@, alert_retention_date(clock, cfg))]

cleanup_old_data(committed, clock, cfg, fails) ==
    IF fails THEN Rollback(committed, cleanup_deletes(committed, clock, cfg))
    ELSE Commit(committed, cleanup_deletes(committed, clock, cfg))

----------------------------------------------------------------------------
(* run_monitoring_cycle *)

\* A cycle that cleans up before it evaluates the thresholds.
next_pc_cleanup_first(p) ==
    CASE p = "collect_disk" -> "collect_inode"
      [] p = "collect_inode" -> "collect_system"
      [] p = "collect_system" -> "collect_fs"
      [] p = "collect_fs" -> "store_metrics"
      [] p = "store_metrics" -> "cleanup"
      [] p = "cleanup" -> "check_thresholds"
      [] p = "check_thresholds" -> "idle"

\* The order of the calls in the try block.
next_pc(p) ==
    CASE p = "collect_disk" -> "collect_inode"
      [] p = "collect_inode" -> "collect_system"
      [] p = "collect_system" -> "collect_fs"
      [] p = "collect_fs" -> "store_metrics"
      [] p = "store_metrics" -> "check_thresholds"
      [] p = "check_thresholds" -> "cleanup"
      [] p = "cleanup" -> "idle"

\* An except clause that logs and goes on with the next call.
after_exception_swallowed(p) == next_pc(p)

\* Where an exception raised by the call at p takes run_monitoring_cycle: out of the
\* try block, through the except clause (log, re-raise), out of the function.
after_exception(p) == "idle"

NotAsked ==
    [disk |-> [p \in PathSet |-> [kind |-> "none", total |-> 0, used |-> 0]],
     inode |-> [p \in PathSet |-> [kind |-> "none", total |-> 0, used |-> 0]],
     system |-> [kind |-> "none", cpu |-> 0, memory |-> 0, load |-> 0],
     fs |-> [p \in PathSet |->
                [kind |-> "none", df |-> "raise", tune |-> "ok", errors |-> 0]]]

NoHistory ==
    [start |-> EmptyDb, before_cleanup |-> EmptyDb,
     metrics_fail_at |-> NoFailure, alerts_fail_at |-> NoFailure,
     retention_dt |-> [sec |-> 0, micro |-> 0],
     alert_retention_dt |-> [sec |-> 0, micro |-> 0],
     cleaned_at |-> [sec |-> 0, micro |-> 0]]

default_config ==
    [retention_days |-> DefaultRetentionDays, tz_offset |-> 0,
     email_enabled |-> FALSE,
     disk_usage_threshold |-> DefaultThreshold,
     inode_usage_threshold |-> DefaultThreshold]

\* The configurations of the model: the default one, and it with one setting changed.
Configs ==
    {default_config}
    \cup {[default_config EXCEPT !.retention_days = r] : r \in RetentionChoices}
    \cup {[default_config EXCEPT !.tz_offset = tz] : tz \in TzOffsets}
    \cup {[default_config EXCEPT !.email_enabled = e] : e \in BOOLEAN}

NoReport ==
    [kind |-> "none", days |-> 0, health |-> <<>>, disk |-> <<>>, result |-> <<>>,
     rating |-> ""]

Init ==
    /\ config \in Configs
    /\ now = [sec |-> 0, micro |-> 0]
    /\ db = init_database(NoStore)
    /\ pc = "idle"
    /\ cycle = 0
    /\ disk_data = <<>>
    /\ inode_data = <<>>
    /\ system_data = <<>>
    /\ filesystem_data = <<>>
    /\ alerts = <<>>
    /\ outcome = "none"
    /\ log = {}
    /\ emails = 0
    /\ faults = MaxFaults
    /\ phases = <<>>
    /\ hist = NoHistory
    /\ answers = NotAsked
    /\ rpc = "idle"
    /\ reports = 0
    /\ health_data = <<>>
    /\ report = NoReport

\* main(): a new invocation (cron starts the script): SystemMonitor() runs
\* init_database, then run_monitoring_cycle starts.
StartCycle ==
    /\ pc = "idle"
    /\ cycle < MaxCycles
    /\ db' = init_database(db)
    /\ pc' = "collect_disk"
    /\ cycle' = cycle + 1
    /\ disk_data' = <<>>
    /\ inode_data' = <<>>
    /\ system_data' = <<>>
    /\ filesystem_data' = <<>>
    /\ alerts' = <<>>
    /\ outcome' = "running"
    /\ log' = {}
    /\ phases' = <<>>
    /\ hist' = [NoHistory EXCEPT !.start = init_database(db),
                                 !.before_cleanup = init_database(db)]
    /\ answers' = NotAsked
    /\ UNCHANGED <<config, now, emails, faults>>
    /\ UNCHANGED readerVars

CollectDisk ==
    /\ pc = "collect_disk"
    /\ \E outs \in [PathSet -> DiskOutcomes] :
        /\ FaultCount(outs) <= faults
        /\ faults' = faults - FaultCount(outs)
        /\ disk_data' = collect_disk(outs)
        /\ answers' = [answers EXCEPT !.disk = outs]
        /\ log' = log \cup
             (IF \E p \in PathSet : get_disk_usage_logs(outs[p])
              THEN {"get_disk_usage"} ELSE {})
    /\ pc' = next_pc("collect_disk")
    /\ phases' = Append(phases, "collect_disk")
    /\ UNCHANGED <<config, now, db, cycle, inode_data, system_data, filesystem_data,
                   alerts, outcome, emails, hist>>
    /\ UNCHANGED readerVars

CollectInode ==
    /\ pc = "collect_inode"
    /\ \E outs \in [PathSet -> InodeOutcomes] :
        /\ FaultCount(outs) <= faults
        /\ faults' = faults - FaultCount(outs)
        /\ inode_data' = collect_inode(outs)
        /\ answers' = [answers EXCEPT !.inode = outs]
        /\ log' = log \cup
             (IF \E p \in PathSet : get_inode_usage_logs(outs[p])
              THEN {"get_inode_usage"} ELSE {})
    /\ pc' = next_pc("collect_inode")
    /\ phases' = Append(phases, "collect_inode")
    /\ UNCHANGED <<config, now, db, cycle, disk_data, system_data, filesystem_data,
                   alerts, outcome, emails, hist>>
    /\ UNCHANGED readerVars

CollectSystem ==
    /\ pc = "collect_system"
    /\ \E out \in SystemOutcomes :
        /\ (out.kind # "ok") => faults > 0
        /\ faults' = IF out.kind # "ok" THEN faults - 1 ELSE faults
        /\ system_data' = get_system_health(out)
        /\ answers' = [answers EXCEPT !.system = out]
        /\ log' = log \cup (IF out.kind = "raise" THEN {"get_system_health"} ELSE {})
    /\ pc' = next_pc("collect_system")
    /\ phases' = Append(phases, "collect_system")
    /\ UNCHANGED <<config, now, db, cycle, disk_data, inode_data, filesystem_data,
                   alerts, outcome, emails, hist>>
    /\ UNCHANGED readerVars

CollectFilesystem ==
    /\ pc = "collect_fs"
    /\ \E outs \in [PathSet -> FsOutcomes] :
        /\ FaultCount(outs) <= faults
        /\ faults' = faults - FaultCount(outs)
        /\ filesystem_data' = collect_filesystem(outs)
        /\ answers' = [answers EXCEPT !.fs = outs]
        /\ log' = log \cup
             (IF \E p \in PathSet :
                    outs[p].kind # "absent" /\ check_filesystem_health_raises(outs[p])
              THEN {"check_filesystem_health"} ELSE {})
    /\ pc' = next_pc("collect_fs")
    /\ phases' = Append(phases, "collect_fs")
    /\ UNCHANGED <<config, now, db, cycle, disk_data, inode_data, system_data,
                   alerts, outcome, emails, hist>>
    /\ UNCHANGED readerVars

StoreMetrics ==
    /\ pc = "store_metrics"
    /\ \E f \in FailPoints(store_metrics_stmts(disk_data, inode_data, system_data,
                                               filesystem_data)) :
        /\ (f # NoFailure) => faults > 0
        /\ faults' = IF f # NoFailure THEN faults - 1 ELSE faults
        /\ db' = store_metrics(db, disk_data, inode_data, system_data,
                               filesystem_data, now, cycle, f)
        /\ hist' = [hist EXCEPT !.metrics_fail_at = f]
        /\ IF f = NoFailure
           THEN /\ pc' = next_pc("store_metrics")
                /\ UNCHANGED <<outcome, log>>
           ELSE /\ pc' = after_exception("store_metrics")
                /\ outcome' = IF after_exception("store_metrics") = "idle"
                              THEN "raised" ELSE outcome
                /\ log' = log \cup {"run_monitoring_cycle"}
    /\ phases' = Append(phases, "store_metrics")
    /\ UNCHANGED <<config, now, cycle, disk_data, inode_data, system_data,
                   filesystem_data, alerts, emails, answers>>
    /\ UNCHANGED readerVars

CheckThresholdsAndAlert ==
    /\ pc = "check_thresholds"
    /\ LET found == check_thresholds(disk_data, inode_data, config)
       IN  /\ alerts' = found
           /\ IF found = <<>>
              THEN /\ pc' = next_pc("check_thresholds")
                   /\ outcome' = IF next_pc("check_thresholds") = "idle"
                                 THEN "completed" ELSE outcome
                   /\ UNCHANGED <<db, faults, log, hist>>
              ELSE \E f \in FailPoints(store_alerts_stmts(found)) :
                   /\ (f # NoFailure) => faults > 0
                   /\ faults' = IF f # NoFailure THEN faults - 1 ELSE faults
                   /\ db' = store_alerts(db, found, now, cycle, f)
                   /\ hist' = [hist EXCEPT !.alerts_fail_at = f]
                   /\ IF f # NoFailure
                      THEN /\ pc' = after_exception("check_thresholds")
                           /\ outcome' = IF after_exception("check_thresholds") = "idle"
                                         THEN "raised" ELSE outcome
                           /\ log' = log \cup {"run_monitoring_cycle"}
                      ELSE /\ pc' = IF config.email_enabled THEN "send_email"
                                    ELSE next_pc("check_thresholds")
                           /\ outcome' = IF ~config.email_enabled
                                            /\ next_pc("check_thresholds") = "idle"
                                         THEN "completed" ELSE outcome
                           /\ UNCHANGED log
    /\ phases' = Append(phases, "check_thresholds")
    /\ UNCHANGED <<config, now, cycle, disk_data, inode_data, system_data,
                   filesystem_data, emails, answers>>
    /\ UNCHANGED readerVars

\* A send_email_alerts whose except clause logs and raises again.
SendEmailAlerts_reraising ==
    /\ pc = "send_email"
    /\ \E sent \in BOOLEAN :
        /\ ~sent => faults > 0
        /\ faults' = IF sent THEN faults ELSE faults - 1
        /\ emails' = IF sent THEN emails + 1 ELSE emails
        /\ log' = IF sent THEN log
                  ELSE log \cup {"send_email_alerts", "run_monitoring_cycle"}
        /\ pc' = IF sent THEN next_pc("check_thresholds")
                 ELSE after_exception("check_thresholds")
        /\ outcome' = IF sent THEN outcome ELSE "raised"
    /\ phases' = Append(phases, "send_email")
    /\ UNCHANGED <<config, now, db, cycle, disk_data, inode_data, system_data,
                   filesystem_data, alerts, hist, answers>>
    /\ UNCHANGED readerVars

\* send_email_alerts, called by check_thresholds_and_alert after store_alerts.
SendEmailAlerts ==
    /\ pc = "send_email"
    /\ \E sent \in BOOLEAN :
        /\ ~sent => faults > 0
        /\ faults' = IF sent THEN faults ELSE faults - 1
        /\ emails' = IF sent THEN emails + 1 ELSE emails
        /\ log' = IF sent THEN log ELSE log \cup {"send_email_alerts"}
    /\ pc' = next_pc("check_thresholds")
    /\ outcome' = IF next_pc("check_thresholds") = "idle" THEN "completed" ELSE outcome
    /\ phases' = Append(phases, "send_email")
    /\ UNCHANGED <<config, now, db, cycle, disk_data, inode_data, system_data,
                   filesystem_data, alerts, hist, answers>>
    /\ UNCHANGED readerVars

CleanupOldData ==
    /\ pc = "cleanup"
    /\ \E fails \in BOOLEAN :
        /\ fails => faults > 0
        /\ faults' = IF fails THEN faults - 1 ELSE faults
        /\ db' = cleanup_old_data(db, now, config, fails)
        /\ IF fails
           THEN /\ pc' = after_exception("cleanup")
                /\ outcome' = IF after_exception("cleanup") = "idle"
                              THEN "raised" ELSE outcome
                /\ log' = log \cup {"run_monitoring_cycle"}
           ELSE /\ pc' = next_pc("cleanup")
                /\ outcome' = IF next_pc("cleanup") = "idle" THEN "completed" ELSE outcome
                /\ UNCHANGED log
    /\ hist' = [hist EXCEPT
                    !.before_cleanup = db,
                    !.retention_dt =
                        minus_days(datetime_now(now, config.tz_offset),
                                   config.retention_days),
                    !.alert_retention_dt =
                        minus_days(datetime_now(now, config.tz_offset),
                                   AlertRetentionDays),
                    !.cleaned_at = now]
    /\ phases' = Append(phases, "cleanup")
    /\ UNCHANGED <<config, now, cycle, disk_data, inode_data, system_data,
                   filesystem_data, alerts, emails, answers>>
    /\ UNCHANGED readerVars

\* Time passes between two invocations (an invocation itself is taken to be
\* short against the clock's grain).
Tick ==
    /\ pc = "idle"
    /\ cycle >= 1
    /\ \E c \in ClockValues : ClockLess(now, c) /\ now' = c
    /\ UNCHANGED config
    /\ UNCHANGED monitorVars
    /\ UNCHANGED readerVars

----------------------------------------------------------------------------
(* The report process (generate_reports.py) *)

RowBefore(a, b) ==
    TextLess(a.timestamp, b.timestamp) \/ (a.timestamp = b.timestamp /\ a.id < b.id)

RECURSIVE OrderByTimestamp(_)
OrderByTimestamp(rows) ==
    IF rows = {} THEN <<>>
    ELSE LET first == CHOOSE r \in rows : \A o \in rows \ {r} : RowBefore(r, o)
         IN  <<first>> \o OrderByTimestamp(rows \ {first})

\* SELECT ... WHERE timestamp >= datetime('now', '-N days') ORDER BY timestamp
select_since(rows, clock, days) ==
    OrderByTimestamp({r \in rows : ~TextLess(r.timestamp, sql_datetime_now(clock, days))})

get_disk_usage_data(committed, clock, days) ==
    select_since(committed.disk_usage, clock, days)

get_system_health_data(committed, clock, days) ==
    select_since(committed.system_health, clock, days)

\* The column `name` of a query result, as a series.
Column(rows, name) == [i \in 1..Len(rows) |-> rows[i].cols[name]]

RECURSIVE SeriesSum(_)
SeriesSum(s) == IF s = <<>> THEN 0 ELSE Head(s) + SeriesSum(Tail(s))

RECURSIVE SeriesMax(_)
SeriesMax(s) ==
    IF Len(s) = 1 THEN s[1]
    ELSE IF Head(s) > SeriesMax(Tail(s)) THEN Head(s) ELSE SeriesMax(Tail(s))

RECURSIVE SeriesMin(_)
SeriesMin(s) ==
    IF Len(s) = 1 THEN s[1]
    ELSE IF Head(s) < SeriesMin(Tail(s)) THEN Head(s) ELSE SeriesMin(Tail(s))

\* Series.tail(n)
SeriesTail(s, n) == IF Len(s) <= n THEN s ELSE SubSeq(s, Len(s) - n + 1, Len(s))

\* Series.diff(), without its first element (NaN, which mean() skips).
SeriesDiff(s) == [i \in 1..(Len(s) - 1) |-> s[i + 1] - s[i]]

\* Series.mean(): <<>> stands for NaN (no element), <<[num, den]>> for num / den.
SeriesMean(s) ==
    IF s = <<>> THEN <<>> ELSE <<[num |-> SeriesSum(s), den |-> Len(s)]>>

\* round(mean, 2) of a series in hundredths, ties to even; the series is not empty.
RoundedMean(s) ==
    LET n == SeriesSum(s)
        q == n \div Len(s)
        r == n % Len(s)
    IN  IF 2 * r > Len(s) \/ (2 * r = Len(s) /\ q % 2 = 1) THEN q + 1 ELSE q

\* mean > band and mean < band, in hundredths; both are False of NaN.  The
\* columns are binary floating point numbers (REAL), and so are their differences
\* and the mean: two decimals 0.1 apart differ by a little less than, exactly, or
\* a little more than the float 0.1 (0.3 - 0.2 = 0.09999999999999998 and
\* 20.1 - 20.0 = 0.10000000000000142).  `beyond` tells whether the rounding
\* carried a mean that is 0.1 in decimals beyond the float 0.1; a mean that is
\* not on the band is at least 0.01 / den off it, far more than any rounding.
MeanGreater(mean, band, beyond) ==
    /\ mean # <<>>
    /\ \/ mean[1].num > band * mean[1].den
       \/ (beyond /\ mean[1].num = band * mean[1].den)

MeanLess(mean, band, beyond) ==
    /\ mean # <<>>
    /\ \/ mean[1].num < band * mean[1].den
       \/ (beyond /\ mean[1].num = band * mean[1].den)

\* The mean is, in decimals, exactly on the band.
OnBand(mean) ==
    /\ mean # <<>>
    /\ \/ mean[1].num = TrendBand * mean[1].den
       \/ mean[1].num = (0 - TrendBand) * mean[1].den

\* A label without the noise band: any move is a trend.
trend_label_no_band(mean, beyond) ==
    IF MeanGreater(mean, 0, FALSE) THEN "increasing"
    ELSE IF MeanLess(mean, 0, FALSE) THEN "decreasing"
    ELSE "stable"

\* "increasing" if t > 0.1 else "decreasing" if t < -0.1 else "stable"
trend_label(mean, beyond) ==
    IF MeanGreater(mean, TrendBand, beyond) THEN "increasing"
    ELSE IF MeanLess(mean, 0 - TrendBand, beyond) THEN "decreasing"
    ELSE "stable"

\* The entry of trends for one column of health_data.
metric_trend(s, beyond) ==
    [current_avg |-> RoundedMean(SeriesTail(s, RecentSamples)),
     trend |-> trend_label(SeriesMean(SeriesDiff(s)), beyond),
     max_value |-> SeriesMax(s),
     min_value |-> SeriesMin(s)]

\* disk_data[disk_data['path'] == path].sort_values('timestamp'): the query result
\* is in timestamp order already.
path_data(disk, path) == SelectSeq(disk, LAMBDA r : r.cols.path = path)

\* disk_data['path'].unique()
unique_paths(disk) == {disk[i].cols.path : i \in 1..Len(disk)}

\* A mapping whose entries are computed from the rows of all the paths.
disk_trends_mixed(disk, fp) ==
    [p \in {q \in unique_paths(disk) : Len(path_data(disk, q)) > 1} |->
        LET s == Column(disk, "usage_percent")
        IN  [current_usage |-> s[Len(s)],
             trend |-> trend_label(SeriesMean(SeriesDiff(s)), fp[p]),
             max_usage |-> SeriesMax(s),
             min_usage |-> SeriesMin(s)]]

\* trends['disk_usage']: an entry for every path with more than one row.
disk_trends(disk, fp) ==
    [p \in {q \in unique_paths(disk) : Len(path_data(disk, q)) > 1} |->
        LET s == Column(path_data(disk, p), "usage_percent")
        IN  [current_usage |-> s[Len(s)],
             trend |-> trend_label(SeriesMean(SeriesDiff(s)), fp[p]),
             max_usage |-> SeriesMax(s),
             min_usage |-> SeriesMin(s)]]

\* The keys of trends that generate_trend_analysis fills.
trend_keys(health, disk) ==
    (IF health # <<>> THEN {"cpu", "memory", "load_average"} ELSE {})
    \cup (IF disk # <<>> THEN {"disk_usage"} ELSE {})

\* The series generate_trend_analysis takes a mean difference of.
SeriesKeys == {"cpu", "memory", "load_average"} \cup PathSet

SeriesOf(health, disk, k) ==
    CASE k = "cpu" -> Column(health, "cpu_percent")
      [] k = "memory" -> Column(health, "memory_percent")
      [] k = "load_average" -> Column(health, "load_avg_1")
      [] OTHER -> Column(path_data(disk, k), "usage_percent")

\* What the floating point rounding can do to the means of these data: carry
\* beyond the band those that are exactly on it, or not.
RoundingChoices(health, disk) ==
    {fp \in [SeriesKeys -> BOOLEAN] :
        \A k \in SeriesKeys :
            fp[k] => OnBand(SeriesMean(SeriesDiff(SeriesOf(health, disk, k))))}

\* The dict generate_trend_analysis returns, as a function of its keys.
generate_trend_analysis(health, disk, fp) ==
    [k \in trend_keys(health, disk) |->
        CASE k = "cpu" -> metric_trend(Column(health, "cpu_percent"), fp[k])
          [] k = "memory" -> metric_trend(Column(health, "memory_percent"), fp[k])
          [] k = "load_average" -> metric_trend(Column(health, "load_avg_1"), fp[k])
          [] k = "disk_usage" -> disk_trends(disk, fp)]

\* generate_trend_analysis: its first query.
TrendReadHealth ==
    /\ rpc = "idle"
    /\ reports < MaxReports
    /\ reports' = reports + 1
    /\ health_data' = get_system_health_data(db, now, ReportDays)
    /\ rpc' = "trend_disk"
    /\ UNCHANGED <<config, now, report>>
    /\ UNCHANGED monitorVars

\* generate_trend_analysis: its second query, and the analysis.
TrendReadDisk ==
    /\ rpc = "trend_disk"
    /\ \E fp \in RoundingChoices(health_data,
                                  get_disk_usage_data(db, now, ReportDays)) :
        report' = [kind |-> "trend", days |-> ReportDays, health |-> health_data,
                   disk |-> get_disk_usage_data(db, now, ReportDays),
                   result |-> generate_trend_analysis(
                                health_data,
                                get_disk_usage_data(db, now, ReportDays), fp),
                   rating |-> ""]
    /\ health_data' = <<>>
    /\ rpc' = "idle"
    /\ UNCHANGED <<config, now, reports>>
    /\ UNCHANGED monitorVars

----------------------------------------------------------------------------
(* The cleanup effectiveness analysis *)

\* usage_percent is a binary floating point number (REAL) that was rounded to
\* two decimals, and the difference of two of them is one too: the difference of
\* two readings that are d apart in decimals is d or a little off it.  These are
\* the pairs <<from, to>> of this model's readings whose difference to - from is,
\* as Python computes it, farther from 0 than the decimal difference:
\* 1.14 - 2.14 = -1.0000000000000002 and 8.05 - 3.05 = 5.000000000000001.  The
\* difference of every other pair of readings that is compared with a limit is
\* either the exact decimal (49.0 - 50.0 = -1.0, 45.0 - 40.0 = 5.0) or at least
\* 0.01 off the limit.
RoundedAway == {<<214, 114>>, <<305, 805>>}

\* to - from < limit, in hundredths
DiffLess(from, to, limit) ==
    \/ to - from < limit
    \/ (to - from = limit /\ <<from, to>> \in RoundedAway)

\* to - from > limit, in hundredths
DiffGreater(from, to, limit) ==
    \/ to - from > limit
    \/ (to - from = limit /\ <<from, to>> \in RoundedAway)

\* round(num / den, ...), ties to even (den > 0)
RoundDiv(num, den) ==
    LET q == num \div den
        r == num % den
    IN  IF 2 * r > den \/ (2 * r = den /\ q % 2 = 1) THEN q + 1 ELSE q

\* The days of a Timedelta, rounded up.
whole_days_rounded_up(first, last) ==
    (last[1] - first[1] + SecondsPerDay - 1) \div SecondsPerDay

\* (last - first).days of two timestamps, first <= last
whole_days(first, last) == (last[1] - first[1]) \div SecondsPerDay

\* len(path_data[path_data['usage_diff'] < -1]): the first usage_diff is NaN.
cleanup_events(s) ==
    Cardinality({i \in 2..Len(s) : DiffLess(s[i - 1], s[i], 0 - CleanupDrop)})

\* "good" if trend < 0 else "poor" if trend > 5 else "stable"
effectiveness_label(initial_usage, final_usage) ==
    IF final_usage < initial_usage THEN "good"
    ELSE IF DiffGreater(initial_usage, final_usage, PoorTrend) THEN "poor"
    ELSE "stable"

\* analysis[path], of the rows of one path in timestamp order (two or more).
\* trend is in hundredths and avg_daily_change, rounded to 3 decimals, in
\* thousandths.
path_effectiveness(rows) ==
    LET s == Column(rows, "usage_percent")
        trend == s[Len(s)] - s[1]
        days_span == whole_days(rows[1].timestamp, rows[Len(rows)].timestamp)
    IN  [initial_usage |-> s[1],
         final_usage |-> s[Len(s)],
         trend |-> trend,
         avg_daily_change |->
            RoundDiv(trend * 10, IF days_span > 1 THEN days_span ELSE 1),
         cleanup_events |-> cleanup_events(s),
         effectiveness |-> effectiveness_label(s[1], s[Len(s)])]

no_data == [status |-> "no_data", message |-> "No disk usage data available"]

\* An analysis that skips no path.
analyze_cleanup_effectiveness_no_skip(disk) ==
    IF disk = <<>> THEN no_data
    ELSE [p \in unique_paths(disk) |-> path_effectiveness(path_data(disk, p))]

\* The dict analyze_cleanup_effectiveness returns, as a function of its keys.
analyze_cleanup_effectiveness(disk) ==
    IF disk = <<>> THEN no_data
    ELSE [p \in {q \in unique_paths(disk) : ~(Len(path_data(disk, q)) < 2)} |->
            path_effectiveness(path_data(disk, p))]

\* cleanup_analysis.get('status') == 'no_data'
is_no_data(cleanup_analysis) ==
    IF "status" \in DOMAIN cleanup_analysis
    THEN cleanup_analysis["status"] = "no_data"
    ELSE FALSE

\* A rating for which half of the paths is enough to be "Good".
overall_rating_from_half(cleanup_analysis) ==
    LET good_count == Cardinality({p \in DOMAIN cleanup_analysis :
                                     cleanup_analysis[p].effectiveness = "good"})
        total_paths == Cardinality(DOMAIN cleanup_analysis)
    IN  IF good_count = total_paths THEN "Excellent"
        ELSE IF 2 * good_count >= total_paths THEN "Good"
        ELSE "Needs Improvement"

\* overall_rating of the monthly report; good_count > total_paths / 2 is a
\* comparison with a float that is exact.
overall_rating(cleanup_analysis) ==
    LET good_count == Cardinality({p \in DOMAIN cleanup_analysis :
                                     cleanup_analysis[p].effectiveness = "good"})
        total_paths == Cardinality(DOMAIN cleanup_analysis)
    IN  IF good_count = total_paths THEN "Excellent"
        ELSE IF 2 * good_count > total_paths THEN "Good"
        ELSE "Needs Improvement"

\* analyze_cleanup_effectiveness: its one query, and the analysis.
AnalyzeCleanupEffectiveness ==
    /\ rpc = "idle"
    /\ reports < MaxReports
    /\ reports' = reports + 1
    /\ report' = [kind |-> "effectiveness", days |-> ReportDays, health |-> <<>>,
                  disk |-> get_disk_usage_data(db, now, ReportDays),
                  result |-> analyze_cleanup_effectiveness(
                                get_disk_usage_data(db, now, ReportDays)),
                  rating |-> ""]
    /\ UNCHANGED <<config, now, rpc, health_data>>
    /\ UNCHANGED monitorVars

\* generate_monthly_report: its cleanup analysis of the last 30 days and the
\* overall rating it writes of it (none when the analysis is no_data).
GenerateMonthlyReport ==
    /\ rpc = "idle"
    /\ reports < MaxReports
    /\ reports' = reports + 1
    /\ LET cleanup_analysis ==
            analyze_cleanup_effectiveness(get_disk_usage_data(db, now, ReportDays))
       IN  report' = [kind |-> "monthly", days |-> ReportDays, health |-> <<>>,
                      disk |-> get_disk_usage_data(db, now, ReportDays),
                      result |-> cleanup_analysis,
                      rating |-> IF is_no_data(cleanup_analysis) THEN ""
                                 ELSE overall_rating(cleanup_analysis)]
    /\ UNCHANGED <<config, now, rpc, health_data>>
    /\ UNCHANGED monitorVars

----------------------------------------------------------------------------

Next ==
    \/ StartCycle
    \/ CollectDisk
    \/ CollectInode
    \/ CollectSystem
    \/ CollectFilesystem
    \/ StoreMetrics
    \/ CheckThresholdsAndAlert
    \/ SendEmailAlerts
    \/ CleanupOldData
    \/ Tick
    \/ TrendReadHealth
    \/ TrendReadDisk
    \/ AnalyzeCleanupEffectiveness

NextMonitor ==
    \/ StartCycle
    \/ CollectDisk
    \/ CollectInode
    \/ CollectSystem
    \/ CollectFilesystem
    \/ StoreMetrics
    \/ CheckThresholdsAndAlert
    \/ SendEmailAlerts
    \/ CleanupOldData
    \/ Tick

\* The monitor alone.
Spec == Init /\ [][NextMonitor]_vars

\* The settings as shipped, with mail off or on.
InitDefault ==
    /\ Init
    /\ config \in {[default_config EXCEPT !.email_enabled = e] : e \in BOOLEAN}

\* The monitor and a report process on the same store.
SpecReports == InitDefault /\ [][Next]_vars

----------------------------------------------------------------------------
(* Collaborators that do not answer *)

\* The calls of the collection loops that wait for the operating system or for a
\* child process: psutil.disk_usage (statvfs), `df -i`, `df -T` and `tune2fs -l`
\* run through subprocess.run without a timeout argument.
BlockingCalls == {"collect_disk", "collect_inode", "collect_fs"}

\* The collaborator never answers (a path on a file server that went away): the
\* call does not return and nothing interrupts it.
CollectorHangs ==
    /\ pc \in BlockingCalls
    /\ faults > 0
    /\ faults' = faults - 1
    /\ phases' = Append(phases, pc)
    /\ pc' = "blocked"
    /\ UNCHANGED <<config, now, db, cycle, disk_data, inode_data, system_data,
                   filesystem_data, alerts, outcome, log, emails, hist, answers>>
    /\ UNCHANGED readerVars

\* The steps of an invocation that is under way.
CycleStep ==
    \/ CollectDisk
    \/ CollectInode
    \/ CollectSystem
    \/ CollectFilesystem
    \/ StoreMetrics
    \/ CheckThresholdsAndAlert
    \/ SendEmailAlerts
    \/ CleanupOldData

NextBlocking ==
    \/ StartCycle
    \/ CycleStep
    \/ CollectorHangs

\* The monitor with collaborators that may not answer.  The interpreter runs an
\* invocation on as long as its current call returns.
SpecBlocking == InitDefault /\ [][NextBlocking]_vars /\ WF_vars(CycleStep)

----------------------------------------------------------------------------
(* The evaluation of the thresholds over a range of readings: the second        *)
(* invocation, at the point where run_monitoring_cycle has collected and stored *)
(* its samples and is about to call check_thresholds_and_alert.                 *)

\* usage_percent readings (hundredths) around the thresholds and around 95.
UsageMarks == {8000, 8500, 8501, 9000, 9500, 9501, 9600}

InodeUsageMarks == {8500, 9000, 9501}

ThresholdChoices == {DefaultThreshold, 90}

Reading(u) == [kind |-> "ok", total |-> 10000, used |-> u]

MarkedDiskOutcomes ==
    {Reading(u) : u \in UsageMarks} \cup {[kind |-> "absent", total |-> 0, used |-> 0]}

MarkedInodeOutcomes ==
    {Reading(u) : u \in InodeUsageMarks}
    \cup {[kind |-> "absent", total |-> 0, used |-> 0]}

UsualSystemOutcome == [kind |-> "ok", cpu |-> 2000, memory |-> 4000, load |-> 100]

UsualFsOutcome == [kind |-> "ok", df |-> "ext4", tune |-> "ok", errors |-> 0]

\* What the first invocation left: nothing, or samples of "/" at 96 % and the
\* alerts raised for them.
BreachSample == <<[path |-> "/", usage_percent |-> 9600]>>

StoreWithBreach ==
    store_alerts(
        store_metrics(EmptyDb, BreachSample, BreachSample, <<>>, <<>>,
                      [sec |-> 0, micro |-> 0], 1, NoFailure),
        check_thresholds(BreachSample, BreachSample, default_config),
        [sec |-> 0, micro |-> 0], 1, NoFailure)

InitThresholds ==
    /\ config \in {[default_config EXCEPT !.disk_usage_threshold = t,
                                          !.email_enabled = e] :
                        t \in ThresholdChoices, e \in BOOLEAN}
    /\ now = [sec |-> 0, micro |-> 0]
    /\ pc = "check_thresholds"
    /\ cycle = 2
    /\ \E douts \in [PathSet -> MarkedDiskOutcomes],
          iouts \in [PathSet -> MarkedInodeOutcomes],
          prior \in {EmptyDb, StoreWithBreach} :
        /\ disk_data = collect_disk(douts)
        /\ inode_data = collect_inode(iouts)
        /\ system_data = get_system_health(UsualSystemOutcome)
        /\ filesystem_data = collect_filesystem([p \in PathSet |-> UsualFsOutcome])
        /\ answers = [disk |-> douts, inode |-> iouts, system |-> UsualSystemOutcome,
                      fs |-> [p \in PathSet |-> UsualFsOutcome]]
        /\ hist = [NoHistory EXCEPT !.start = prior, !.before_cleanup = prior]
        /\ db = store_metrics(prior, collect_disk(douts), collect_inode(iouts),
                              get_system_health(UsualSystemOutcome),
                              collect_filesystem([p \in PathSet |-> UsualFsOutcome]),
                              [sec |-> 0, micro |-> 0], 2, NoFailure)
    /\ alerts = <<>>
    /\ outcome = "running"
    /\ log = {}
    /\ emails = 0
    /\ faults = MaxFaults
    /\ phases = <<"collect_disk", "collect_inode", "collect_system", "collect_fs",
                  "store_metrics">>
    /\ rpc = "idle"
    /\ reports = 0
    /\ health_data = <<>>
    /\ report = NoReport

NextThresholds ==
    \/ CheckThresholdsAndAlert
    \/ SendEmailAlerts
    \/ CleanupOldData

SpecThresholds == InitThresholds /\ [][NextThresholds]_vars

----------------------------------------------------------------------------
(* The trend analysis over a range of stores: the monitor ran once a day and    *)
(* is not running; the report process computes one trend analysis.              *)

\* System health readings (hundredths) whose differences fall on, inside and
\* outside the +-0.1 band, differently for the three columns.
HealthMarks ==
    {[cpu_percent |-> 2000, memory_percent |-> 4011, load_avg_1 |-> 110],
     [cpu_percent |-> 2010, memory_percent |-> 4000, load_avg_1 |-> 100],
     [cpu_percent |-> 2011, memory_percent |-> 4010, load_avg_1 |-> 111]}

DiskMarks == {5000, 5010, 5011}

\* Days at which the report is computed: the samples of days 0, 1, 2 are all,
\* in part, or not at all in the window of ReportDays days.
ReportDayMarks == {3, 31, 120}

SeqsUpTo(S, n) == UNION {[1..k -> S] : k \in 0..n}

Day(d) == [sec |-> d * SecondsPerDay, micro |-> 0]

\* What the invocation of day i - 1 collected, given the series it is part of.
DiskBatch(ds, i) ==
    Compact([k \in 1..Len(monitored_paths) |->
        IF i <= Len(ds[monitored_paths[k]])
        THEN <<[path |-> monitored_paths[k],
                usage_percent |-> ds[monitored_paths[k]][i]]>>
        ELSE <<>>])

InodeBatch(ds, i) ==
    Compact([k \in 1..Len(monitored_paths) |->
        IF i <= Len(ds[monitored_paths[k]])
        THEN get_inode_usage(monitored_paths[k],
                             [kind |-> "ok", total |-> 1000, used |-> 500])
        ELSE <<>>])

FsBatch(ds, i) ==
    Compact([k \in 1..Len(monitored_paths) |->
        IF i <= Len(ds[monitored_paths[k]])
        THEN check_filesystem_health(monitored_paths[k], UsualFsOutcome)
        ELSE <<>>])

SystemBatch(hs, i) == IF i <= Len(hs) THEN <<hs[i]>> ELSE <<>>

\* The store after the invocations of days 0 .. n - 1.
RECURSIVE Populated(_, _, _, _, _)
Populated(work, hs, ds, i, n) ==
    IF i > n THEN work
    ELSE Populated(store_metrics(work, DiskBatch(ds, i), InodeBatch(ds, i),
                                 SystemBatch(hs, i), FsBatch(ds, i),
                                 Day(i - 1), i, NoFailure),
                   hs, ds, i + 1, n)

LongestSeries == IF MaxHealthSeries > MaxDiskSeries THEN MaxHealthSeries
                 ELSE MaxDiskSeries

InitTrends ==
    /\ config = default_config
    /\ \E d \in ReportDayMarks : now = Day(d)
    /\ \E hs \in SeqsUpTo(HealthMarks, MaxHealthSeries),
          ds \in [PathSet -> SeqsUpTo(DiskMarks, MaxDiskSeries)] :
            db = Populated(init_database(NoStore), hs, ds, 1, LongestSeries)
    /\ pc = "idle"
    /\ cycle = LongestSeries
    /\ disk_data = <<>>
    /\ inode_data = <<>>
    /\ system_data = <<>>
    /\ filesystem_data = <<>>
    /\ alerts = <<>>
    /\ outcome = "completed"
    /\ log = {}
    /\ emails = 0
    /\ faults = MaxFaults
    /\ phases = <<>>
    /\ hist = NoHistory
    /\ answers = NotAsked
    /\ rpc = "idle"
    /\ reports = 0
    /\ health_data = <<>>
    /\ report = NoReport

NextTrends ==
    \/ TrendReadHealth
    \/ TrendReadDisk

SpecTrends == InitTrends /\ [][NextTrends]_vars

----------------------------------------------------------------------------
(* The cleanup effectiveness analysis over a range of stores: the monitor ran   *)
(* a few times at a fixed interval and is not running; the report process       *)
(* computes one analysis, by itself or for the monthly report.                  *)

\* The paths the monitor was configured with when it filled the store.
analysed_paths == <<"/", "/home", "/var">>

AnalysedPathSet == {analysed_paths[i] : i \in 1..Len(analysed_paths)}

\* usage_percent readings (hundredths) of one path at successive invocations:
\* none, one, drops and rises of less than, exactly and more than one point,
\* and trends of 0, of exactly 5 points and of more than 5.
UsageSeriesMarks ==
    {<<>>,
     <<5000>>,
     <<5000, 4000, 4200, 3500>>,
     <<5000, 4900>>,
     <<214, 114>>,
     <<4000, 4000>>,
     <<4000, 4500>>,
     <<305, 805>>,
     <<4000, 4501>>,
     <<4000, 3899, 4100>>}

\* Seconds between two invocations: the same second, 20 hours, one day.
SampleSpacings == {0, 72000, SecondsPerDay}

\* Days at which the report is computed: with daily samples from day 0 on, all
\* of them or all but the first are in the window of ReportDays days.
AnalysisDayMarks == {3, 31}

\* What invocation i collected, given the usage series of every path.
UsageBatch(us, i) ==
    Compact([k \in 1..Len(analysed_paths) |->
        IF i <= Len(us[analysed_paths[k]])
        THEN <<[path |-> analysed_paths[k],
                usage_percent |-> us[analysed_paths[k]][i]]>>
        ELSE <<>>])

UsualInodeBatch(us, i) ==
    Compact([k \in 1..Len(analysed_paths) |->
        IF i <= Len(us[analysed_paths[k]])
        THEN get_inode_usage(analysed_paths[k],
                             [kind |-> "ok", total |-> 1000, used |-> 500])
        ELSE <<>>])

UsualFsBatch(us, i) ==
    Compact([k \in 1..Len(analysed_paths) |->
        IF i <= Len(us[analysed_paths[k]])
        THEN check_filesystem_health(analysed_paths[k], UsualFsOutcome)
        ELSE <<>>])

\* The number of invocations that left the series us.
Invocations(us) ==
    CHOOSE n \in {Len(us[p]) : p \in AnalysedPathSet} :
        \A p \in AnalysedPathSet : Len(us[p]) <= n

\* The store after invocations i .. n, `spacing` seconds after one another.
RECURSIVE Recorded(_, _, _, _, _)
Recorded(work, us, spacing, i, n) ==
    IF i > n THEN work
    ELSE Recorded(store_metrics(work, UsageBatch(us, i), UsualInodeBatch(us, i),
                                get_system_health(UsualSystemOutcome),
                                UsualFsBatch(us, i),
                                [sec |-> (i - 1) * spacing, micro |-> 0], i,
                                NoFailure),
                  us, spacing, i + 1, n)

InitEffectiveness ==
    /\ config = default_config
    /\ \E d \in AnalysisDayMarks : now = Day(d)
    /\ \E us \in [AnalysedPathSet -> UsageSeriesMarks], spacing \in SampleSpacings :
        /\ db = Recorded(init_database(NoStore), us, spacing, 1, Invocations(us))
        /\ cycle = Invocations(us)
    /\ pc = "idle"
    /\ disk_data = <<>>
    /\ inode_data = <<>>
    /\ system_data = <<>>
    /\ filesystem_data = <<>>
    /\ alerts = <<>>
    /\ outcome = "completed"
    /\ log = {}
    /\ emails = 0
    /\ faults = MaxFaults
    /\ phases = <<>>
    /\ hist = NoHistory
    /\ answers = NotAsked
    /\ rpc = "idle"
    /\ reports = 0
    /\ health_data = <<>>
    /\ report = NoReport

NextEffectiveness ==
    \/ AnalyzeCleanupEffectiveness
    \/ GenerateMonthlyReport

SpecEffectiveness == InitEffectiveness /\ [][NextEffectiveness]_vars

----------------------------------------------------------------------------
(* Vocabulary of the properties *)

AllTables == Tables \cup {"alerts"}

\* The rows of table t written by the current invocation.
CycleRows(t) == {r \in db[t] : r.cycle = cycle}

\* The INSERTs the current invocation's store_metrics is given.
BatchStmts == store_metrics_stmts(disk_data, inode_data, system_data, filesystem_data)

StmtsOf(stmts, t) == {i \in 1..Len(stmts) : stmts[i].table = t}

\* Table t holds exactly one row of the current invocation per statement of stmts
\* on t, with that statement's values.
Holds(stmts, t) ==
    /\ Cardinality(CycleRows(t)) = Cardinality(StmtsOf(stmts, t))
    /\ {r.cols : r \in CycleRows(t)} = {stmts[i].cols : i \in StmtsOf(stmts, t)}

BatchCommitted == \A t \in Tables : Holds(BatchStmts, t)

Occurs(e) == \E i \in 1..Len(phases) : phases[i] = e

Count(e) == Cardinality({i \in 1..Len(phases) : phases[i] = e})

LastPhase == IF phases = <<>> THEN "none" ELSE phases[Len(phases)]

CollectCalls == {"collect_disk", "collect_inode", "collect_system", "collect_fs"}

\* Collect = 1, Persist = 2, Evaluate&Alert = 3, Prune = 4
PhaseRank(e) ==
    CASE e \in CollectCalls -> 1
      [] e = "store_metrics" -> 2
      [] e \in {"check_thresholds", "send_email"} -> 3
      [] e = "cleanup" -> 4

\* Some row that was in the store when the invocation started is gone.
SomethingPruned == \E t \in AllTables : \E r \in hist.start[t] : r \notin db[t]

EvaluateFinished ==
    /\ Occurs("check_thresholds")
    /\ pc \notin {"check_thresholds", "send_email"}

----------------------------------------------------------------------------
(* C1: in every invocation of run_monitoring_cycle the phases run in the order  *)
(* Collect, Persist, Evaluate&Alert, Prune, each call at most once: no sample   *)
(* row of the invocation is in the store before all four collection calls have  *)
(* returned, the thresholds are not evaluated and no alert is written before    *)
(* the invocation's sample batch is committed, and no row is pruned before the  *)
(* Evaluate&Alert phase has finished.                                           *)
C1_PhaseOrder ==
    /\ \A i, j \in 1..Len(phases) : i < j => PhaseRank(phases[i]) <= PhaseRank(phases[j])
    /\ \A e \in CollectCalls \cup {"store_metrics", "check_thresholds", "send_email",
                                   "cleanup"} : Count(e) <= 1
    /\ (\E t \in Tables : CycleRows(t) # {}) => \A e \in CollectCalls : Occurs(e)
    /\ (Occurs("check_thresholds") \/ CycleRows("alerts") # {}) =>
            /\ Occurs("store_metrics")
            /\ ~Occurs("cleanup") => BatchCommitted
    /\ (pc = "check_thresholds" /\ cycle >= 1) => BatchCommitted
    /\ (SomethingPruned \/ Occurs("cleanup")) => EvaluateFinished

C1_Witness ==
    /\ pc = "idle"
    /\ outcome = "completed"
    /\ phases = <<"collect_disk", "collect_inode", "collect_system", "collect_fs",
                  "store_metrics", "check_thresholds", "cleanup">>
    /\ CycleRows("alerts") # {}
    /\ SomethingPruned

----------------------------------------------------------------------------
StoreMetricsFailed == Occurs("store_metrics") /\ hist.metrics_fail_at # NoFailure

(* C2: if store_metrics fails, the invocation ends there: the thresholds are    *)
(* not evaluated, no alert is stored or mailed, nothing is pruned, and no row   *)
(* of the failed batch is in the store (the store is as it was at the start).   *)
C2_PersistFailureAborts ==
    StoreMetricsFailed =>
        /\ pc = "idle"
        /\ outcome = "raised"
        /\ LastPhase = "store_metrics"
        /\ alerts = <<>>
        /\ db = hist.start
        /\ \A t \in AllTables : CycleRows(t) = {}

C2_Witness ==
    /\ StoreMetricsFailed
    /\ pc = "idle"
    /\ hist.metrics_fail_at >= 2
    /\ hist.metrics_fail_at <= Len(BatchStmts)
    /\ hist.start.disk_usage # {}

----------------------------------------------------------------------------

RowsFor(t, p) == {r \in CycleRows(t) : r.cols.path = p}

\* store_metrics has committed the batch and cleanup has not run yet.
BatchInStore ==
    /\ Occurs("store_metrics")
    /\ hist.metrics_fail_at = NoFailure
    /\ ~Occurs("cleanup")

DiskFailed(p) ==
    answers.disk[p].kind = "raise"
    \/ (answers.disk[p].kind = "odd" /\ answers.disk[p].total = 0)

DiskAnswered(p) == answers.disk[p].kind \in {"ok", "odd"} /\ answers.disk[p].total # 0

InodeFailed(p) == answers.inode[p].kind \in {"raise", "nonzero"}

InodeAnswered(p) == answers.inode[p].kind \in {"ok", "odd"}

FsFailed(p) == answers.fs[p].kind = "fail"

FsAnswered(p) == answers.fs[p].kind \in {"ok", "odd"}

\* What holds of disk usage, inode usage and system health, and of the paths whose
\* filesystem check succeeded: one row per answer, none per failure.
C3_Contained ==
    /\ outcome = "raised" => Occurs("store_metrics")
    /\ BatchInStore =>
        /\ \A p \in PathSet :
            /\ DiskFailed(p) => RowsFor("disk_usage", p) = {}
            /\ DiskAnswered(p) =>
                    /\ Cardinality(RowsFor("disk_usage", p)) = 1
                    /\ \A r \in RowsFor("disk_usage", p) :
                         r.cols.usage_percent * answers.disk[p].total
                            = answers.disk[p].used * 10000
            /\ InodeFailed(p) => RowsFor("inode_usage", p) = {}
            /\ InodeAnswered(p) => Cardinality(RowsFor("inode_usage", p)) = 1
            /\ FsAnswered(p) =>
                    /\ Cardinality(RowsFor("filesystem_health", p)) = 1
                    /\ \A r \in RowsFor("filesystem_health", p) :
                         /\ r.cols.errors = answers.fs[p].errors
                         /\ r.cols.status = IF answers.fs[p].errors > 0
                                            THEN "errors_detected" ELSE "healthy"
        /\ answers.system.kind = "raise" => CycleRows("system_health") = {}
        /\ answers.system.kind = "ok" => Cardinality(CycleRows("system_health")) = 1

----------------------------------------------------------------------------
(* C4: failures of the Evaluate&Alert and Prune phases are not fatal: once the  *)
(* invocation has reached the evaluation of the thresholds, it runs the cleanup *)
(* (also when storing the alerts failed) and ends as completed (also when the   *)
(* cleanup failed).                                                             *)
C4_EvaluateAndPruneNotFatal ==
    (pc = "idle" /\ Occurs("check_thresholds")) =>
        (Occurs("cleanup") /\ outcome = "completed")

----------------------------------------------------------------------------
StoreAlertsFailed == Occurs("check_thresholds") /\ hist.alerts_fail_at # NoFailure

(* C5: when storing the alerts of an invocation fails, every row of the sample  *)
(* batch that store_metrics committed earlier in the invocation is still in the *)
(* store, and so is every sample row that was there before.                     *)
C5_SamplesSurviveAlertFailure ==
    StoreAlertsFailed =>
        /\ BatchCommitted
        /\ \A t \in Tables : hist.start[t] \subseteq db[t]

C5_Witness ==
    /\ StoreAlertsFailed
    /\ CycleRows("disk_usage") # {}
    /\ CycleRows("system_health") # {}
    /\ hist.start.disk_usage # {}

----------------------------------------------------------------------------
(* C6: no exception leaves run_monitoring_cycle: whatever fails, the invocation *)
(* ends by returning a result.                                                  *)
C6_NoExceptionCrossesBoundary == outcome # "raised"

----------------------------------------------------------------------------
(* C7: a write is all or nothing.  After store_metrics: if a step of it failed, *)
(* no row of the batch is in the store, and if none failed, all of them are.    *)
(* After store_alerts: the same for the alert rows.                             *)
C7_AllOrNothing ==
    /\ LastPhase = "store_metrics" =>
        IF hist.metrics_fail_at = NoFailure
        THEN BatchCommitted
        ELSE /\ \A t \in AllTables : CycleRows(t) = {}
             /\ db = hist.start
    /\ (LastPhase = "check_thresholds" /\ alerts # <<>>) =>
        IF hist.alerts_fail_at = NoFailure
        THEN Holds(store_alerts_stmts(alerts), "alerts")
        ELSE /\ CycleRows("alerts") = {}
             /\ db.alerts = hist.start.alerts

C7_Witness ==
    /\ LastPhase = "check_thresholds"
    /\ Len(alerts) = 2
    /\ hist.alerts_fail_at = 2
    /\ CycleRows("alerts") = {}
    /\ CycleRows("disk_usage") # {}

----------------------------------------------------------------------------
Elements(seq) == {seq[i] : i \in 1..Len(seq)}

(* C8: a trend analysis that runs while a cycle persists its batch sees, over   *)
(* the sample kinds it reads (system_health and disk_usage), the batch whole or *)
(* not at all: if its disk usage data holds a row of an invocation, its system  *)
(* health data holds the system health row of that invocation too.              *)
C8_ReportSeesWholeBatch ==
    report.kind = "trend" =>
        \A c \in 1..cycle :
            (\E d \in Elements(report.disk) : d.cycle = c) =>
                \A h \in db.system_health : h.cycle = c => h \in Elements(report.health)

----------------------------------------------------------------------------
CleanupDone == pc = "idle" /\ outcome = "completed" /\ LastPhase = "cleanup"

\* The instant a row's timestamp names.
RowInstant(r) == [sec |-> r.timestamp[1], micro |-> 0]

CutoffOf(t) == IF t = "alerts" THEN hist.alert_retention_dt ELSE hist.retention_dt

(* C9: a cleanup that ran to its end deleted, in every table, exactly the rows  *)
(* whose timestamp is strictly before the table's cutoff: a row stamped exactly *)
(* at the cutoff, or later, is kept.                                            *)
C9_PruneBoundary ==
    CleanupDone =>
        \A t \in AllTables :
            /\ db[t] \subseteq hist.before_cleanup[t]
            /\ \A r \in hist.before_cleanup[t] :
                 (r \notin db[t]) <=> ClockLess(RowInstant(r), CutoffOf(t))

C9_Witness ==
    /\ CleanupDone
    /\ \E r \in db.alerts : RowInstant(r) = hist.alert_retention_dt
    /\ \E r \in hist.before_cleanup.disk_usage : r \notin db.disk_usage

----------------------------------------------------------------------------
RetentionOf(t) == IF t = "alerts" THEN AlertRetentionDays ELSE config.retention_days

\* The row was written more than `days` days before the instant `at` (both UTC).
OlderThan(r, at, days) == ClockLess(RowInstant(r), minus_days(at, days))

(* C10: whatever retention_days is configured, a cleanup that ran to its end    *)
(* deleted an alert if and only if it was older than 90 days, and a sample of   *)
(* any kind if and only if it was older than retention_days.                    *)
C10_RetentionByAge ==
    CleanupDone =>
        \A t \in AllTables : \A r \in hist.before_cleanup[t] :
            (r \notin db[t]) <=> OlderThan(r, hist.cleaned_at, RetentionOf(t))

----------------------------------------------------------------------------
\* The positions of the samples of `data` that are over the threshold.
Breaches(data, threshold) ==
    {i \in 1..Len(data) : data[i].usage_percent > threshold * 100}

\* The positions of the alerts of kind `alert_type` raised for path p.
AlertsFor(alert_type, p) ==
    {k \in 1..Len(alerts) : alerts[k].alert_type = alert_type /\ alerts[k].path = p}

\* One alert for each sample of `data` over the threshold, of the severity its
\* reading calls for, and none for the others.
AlertedExactly(data, alert_type, threshold) ==
    \A i \in 1..Len(data) :
        IF data[i].usage_percent > threshold * 100
        THEN /\ Cardinality(AlertsFor(alert_type, data[i].path)) = 1
             /\ \A k \in AlertsFor(alert_type, data[i].path) :
                    /\ alerts[k].usage_percent = data[i].usage_percent
                    /\ alerts[k].severity =
                          IF data[i].usage_percent > 9500 THEN "critical" ELSE "warning"
        ELSE AlertsFor(alert_type, data[i].path) = {}

(* C11: the alerts an invocation produces are exactly one alert for each        *)
(* just-collected disk sample with usage_percent > disk threshold and one for   *)
(* each just-collected inode sample with usage_percent > inode threshold, none  *)
(* for a sample at or under its threshold and none for a row already in the     *)
(* store; an alert is critical when the sample's usage_percent > 95 and warning *)
(* otherwise.  The alerts stored are these.                                     *)
C11_ThresholdEvaluation ==
    Occurs("check_thresholds") =>
        /\ AlertedExactly(disk_data, "disk_usage", config.disk_usage_threshold)
        /\ AlertedExactly(inode_data, "inode_usage", config.inode_usage_threshold)
        /\ Len(alerts) =
                Cardinality(Breaches(disk_data, config.disk_usage_threshold))
                + Cardinality(Breaches(inode_data, config.inode_usage_threshold))
        /\ hist.alerts_fail_at = NoFailure =>
                Cardinality(CycleRows("alerts")) = Len(alerts)
        /\ hist.alerts_fail_at # NoFailure => CycleRows("alerts") = {}

\* Threshold 85: "/" read 80 % now and 96 % in the invocation before, "/home"
\* reads 90 %, and the inodes of "/" 95.01 %: one warning and one critical.
C11_Witness ==
    /\ Occurs("check_thresholds")
    /\ config.disk_usage_threshold = DefaultThreshold
    /\ \E r \in db.disk_usage :
            r.cycle = 1 /\ r.cols.path = "/" /\ r.cols.usage_percent = 9600
    /\ disk_data = <<[path |-> "/", usage_percent |-> 8000],
                     [path |-> "/home", usage_percent |-> 9000]>>
    /\ inode_data = <<[path |-> "/", usage_percent |-> 9501]>>
    /\ Len(alerts) = 2
    /\ alerts[1].severity = "warning"
    /\ alerts[2].severity = "critical"
    /\ Cardinality(CycleRows("alerts")) = 2

----------------------------------------------------------------------------
\* The alert rows the current invocation wrote for the sample d.
NewAlertRows(alert_type, d) ==
    {r \in CycleRows("alerts") :
        /\ r.cols.alert_type = alert_type
        /\ r.cols.path = d.path
        /\ r.cols.usage_percent = d.usage_percent
        /\ \A o \in hist.start.alerts : o.id # r.id}

RaisedAgain(data, alert_type, threshold) ==
    \A i \in Breaches(data, threshold) :
        Cardinality(NewAlertRows(alert_type, data[i])) = 1

(* C12: repeat alerts are not deduplicated.  Once an invocation has stored its  *)
(* alerts, the alerts table holds a new row for every sample of the invocation  *)
(* that is over its threshold, one per breaching path, whatever alert rows of   *)
(* earlier invocations the table already held; and those earlier rows are still *)
(* there.                                                                       *)
C12_RepeatAlerts ==
    (Occurs("check_thresholds") /\ hist.alerts_fail_at = NoFailure) =>
        /\ RaisedAgain(disk_data, "disk_usage", config.disk_usage_threshold)
        /\ RaisedAgain(inode_data, "inode_usage", config.inode_usage_threshold)
        /\ Cardinality(CycleRows("alerts")) = Len(alerts)
        /\ ~Occurs("cleanup") => hist.start.alerts \subseteq db.alerts

\* "/" is over the threshold in two consecutive invocations and "/home" in the
\* second one: three alert rows, two of them for "/".
C12_Witness ==
    /\ cycle = 2
    /\ pc = "idle"
    /\ outcome = "completed"
    /\ \E a, b, c \in db.alerts :
        /\ a.cycle = 1 /\ a.cols.alert_type = "disk_usage" /\ a.cols.path = "/"
        /\ b.cycle = 2 /\ b.cols.alert_type = "disk_usage" /\ b.cols.path = "/"
        /\ c.cycle = 2 /\ c.cols.alert_type = "disk_usage" /\ c.cols.path = "/home"
        /\ a.id # b.id

----------------------------------------------------------------------------
\* send_email_alerts failed in the current invocation (it logs the failure).
EmailFailed == "send_email_alerts" \in log

(* C13: a failure to mail the alerts is logged only.  The alerts of the         *)
(* invocation were stored before the mail was tried and are still stored, the   *)
(* invocation goes on to the cleanup, and it does not end with an exception     *)
(* because of the mail: if it ends with one, the cleanup raised it.             *)
C13_EmailFailureLoggedOnly ==
    EmailFailed =>
        /\ Occurs("send_email")
        /\ alerts # <<>>
        /\ hist.alerts_fail_at = NoFailure
        /\ Holds(store_alerts_stmts(alerts), "alerts")
        /\ pc \in {"cleanup", "idle"}
        /\ pc = "cleanup" => outcome = "running"
        /\ pc = "idle" =>
                /\ Occurs("cleanup")
                /\ outcome = "raised" => "run_monitoring_cycle" \in log

C13_Witness ==
    /\ EmailFailed
    /\ pc = "idle"
    /\ outcome = "completed"
    /\ emails = 0
    /\ CycleRows("alerts") # {}
    /\ LastPhase = "cleanup"

----------------------------------------------------------------------------
(* C14: every call to a collaborator during the collection is bounded by a      *)
(* timeout, so an invocation in which a collaborator never answers still ends:  *)
(* an invocation that is under way eventually is over.                          *)
C14_CycleTerminates == (pc # "idle") ~> (pc = "idle")

----------------------------------------------------------------------------
\* A row as the table keeps it: id, timestamp and the inserted columns.
Stored(r) == [id |-> r.id, timestamp |-> r.timestamp, cols |-> r.cols]

StoredRows(rows) == {Stored(r) : r \in rows}

\* The n statements of stmts on table t added exactly n rows to it, under ids no
\* row had before, and every row that was there is there unchanged.
Appended(stmts, t) ==
    /\ StoredRows(hist.start[t]) \subseteq StoredRows(db[t])
    /\ Cardinality(StoredRows(db[t])) =
            Cardinality(StoredRows(hist.start[t])) + Cardinality(StmtsOf(stmts, t))
    /\ \A r \in db[t] : \A o \in hist.start[t] : r.id = o.id => Stored(r) = Stored(o)
    /\ \A r, o \in db[t] : r.id = o.id => r = o

(* C15: the store is append-only.  A batch of n samples that store_metrics has  *)
(* committed added exactly n new rows and left every row that was there         *)
(* unchanged, also when a sample of the batch equals a stored row in every      *)
(* field (the two are distinct rows); the same for the alerts store_alerts has  *)
(* committed.                                                                   *)
C15_AppendOnly ==
    /\ (LastPhase = "store_metrics" /\ hist.metrics_fail_at = NoFailure) =>
            /\ \A t \in Tables : Appended(BatchStmts, t)
            /\ db.alerts = hist.start.alerts
    /\ (LastPhase = "check_thresholds" /\ hist.alerts_fail_at = NoFailure) =>
            \A t \in AllTables :
                Appended(BatchStmts \o store_alerts_stmts(alerts), t)

\* The second invocation stored a disk sample equal, timestamp included, to one
\* the first invocation stored.
C15_Witness ==
    /\ LastPhase = "store_metrics"
    /\ hist.metrics_fail_at = NoFailure
    /\ \E o \in hist.start.disk_usage : \E r \in db.disk_usage :
            /\ r.cols = o.cols
            /\ r.timestamp = o.timestamp
            /\ r.id # o.id
            /\ r \notin hist.start.disk_usage

----------------------------------------------------------------------------
(* C16: the initialisation of the schema is idempotent.  On every store the     *)
(* program can leave, whatever it inserted, running init_database again changes *)
(* nothing: the five tables and every sample and alert row are as they were.    *)
C16_InitIdempotent ==
    /\ init_database(db) = db
    /\ \A t \in AllTables : t \in DOMAIN db

\* The constructor of the second invocation has run on a store with rows.
C16_Witness ==
    /\ cycle = 2
    /\ pc = "collect_disk"
    /\ db.disk_usage # {}
    /\ db.system_health # {}
    /\ db.alerts # {}
    /\ db = hist.start

----------------------------------------------------------------------------
\* The collaborator answered for path p, with a total of 0.
DiskTotalZero(p) == answers.disk[p].kind \in {"ok", "odd"} /\ answers.disk[p].total = 0

InodeTotalZero(p) ==
    answers.inode[p].kind \in {"ok", "odd"} /\ answers.inode[p].total = 0

\* A source with total 0 gave a sample with usage_percent 0.
InodeZeroGuarded ==
    BatchInStore =>
        \A p \in PathSet : InodeTotalZero(p) =>
            /\ Cardinality(RowsFor("inode_usage", p)) = 1
            /\ \A r \in RowsFor("inode_usage", p) : r.cols.usage_percent = 0

DiskZeroGuarded ==
    BatchInStore =>
        \A p \in PathSet : DiskTotalZero(p) =>
            /\ Cardinality(RowsFor("disk_usage", p)) = 1
            /\ \A r \in RowsFor("disk_usage", p) : r.cols.usage_percent = 0

\* No collector met a division fault: the only errors the collectors logged are
\* those of collaborators that raised.
NoDivisionFault ==
    /\ (Occurs("collect_disk") /\ \A p \in PathSet : answers.disk[p].kind # "raise")
            => "get_disk_usage" \notin log
    /\ (Occurs("collect_inode") /\ \A p \in PathSet : answers.inode[p].kind # "raise")
            => "get_inode_usage" \notin log

(* C17: zero-guard.  For the disk collection and for the inode collection, a    *)
(* source whose total is 0 gives a sample with usage_percent = 0, and no        *)
(* collector meets a division fault.                                            *)
C17_ZeroGuard ==
    /\ DiskZeroGuarded
    /\ InodeZeroGuarded
    /\ NoDivisionFault

----------------------------------------------------------------------------
(* Vocabulary of the trend properties *)

\* The label the rule gives a series: with d the mean of its successive
\* differences, (last - first) / (n - 1), increasing if d > 0.1, decreasing if
\* d < -0.1, stable otherwise and when there is no difference.  The values are
\* in hundredths, so d > 0.1 reads last - first > 10 * (n - 1).
RuleLabel(s) ==
    LET n == Len(s)
    IN  IF n >= 2 /\ s[n] - s[1] > 10 * (n - 1) THEN "increasing"
        ELSE IF n >= 2 /\ s[1] - s[n] > 10 * (n - 1) THEN "decreasing"
        ELSE "stable"

\* The usage_percent values of the rows of the report's disk data for path p.
PathSeries(p) ==
    LET at == {i \in 1..Len(report.disk) : report.disk[i].cols.path = p}
        nth(k) == CHOOSE i \in at : Cardinality({j \in at : j < i}) = k - 1
    IN  [k \in 1..Cardinality(at) |-> report.disk[nth(k)].cols.usage_percent]

PathsInWindow == {report.disk[i].cols.path : i \in 1..Len(report.disk)}

HealthColumns ==
    [cpu |-> "cpu_percent", memory |-> "memory_percent", load_average |-> "load_avg_1"]

HealthSeries(k) ==
    [i \in 1..Len(report.health) |-> report.health[i].cols[HealthColumns[k]]]

\* d, in decimals, is exactly 0.1 or exactly -0.1.
ExactlyOnBand(s) ==
    /\ Len(s) >= 2
    /\ \/ s[Len(s)] - s[1] = 10 * (Len(s) - 1)
       \/ s[1] - s[Len(s)] = 10 * (Len(s) - 1)

\* The label of a series when d in decimals is exactly on the band and the
\* floating point mean came out beyond it.
MovedLabel(s) == IF s[Len(s)] > s[1] THEN "increasing" ELSE "decreasing"

\* The label is the rule's, read on the floating point mean.
LabelledInFloat(s, label) ==
    IF ExactlyOnBand(s) THEN label \in {"stable", MovedLabel(s)}
    ELSE label = RuleLabel(s)

----------------------------------------------------------------------------
\* The value is the output state no_data.
IsNoData(x) == "status" \in DOMAIN x /\ x["status"] = "no_data"

\* The analysis reports no_data for the keys K: as its whole result, or under
\* each of the keys.
ReportsNoData(K) ==
    \/ IsNoData(report.result)
    \/ \A k \in K : k \in DOMAIN report.result /\ IsNoData(report.result[k])

(* C19: a trend analysis of an empty sample sequence (no row of the kind in the *)
(* requested window) reports the output state no_data for it: not a trend       *)
(* label, and not an absent or empty result.                                    *)
C19_EmptyIsNoData ==
    report.kind = "trend" =>
        /\ report.health = <<>> => ReportsNoData(DOMAIN HealthColumns)
        /\ report.disk = <<>> => ReportsNoData({"disk_usage"})

----------------------------------------------------------------------------
SeriesValues(p) == {PathSeries(p)[i] : i \in 1..Len(PathSeries(p))}

\* The entry of path p is computed from the samples of p alone.
OwnEntry(p) ==
    LET entry == report.result["disk_usage"][p]
        own == PathSeries(p)
    IN  /\ entry.current_usage = own[Len(own)]
        /\ entry.max_usage \in SeriesValues(p)
        /\ \A v \in SeriesValues(p) : v <= entry.max_usage
        /\ entry.min_usage \in SeriesValues(p)
        /\ \A v \in SeriesValues(p) : v >= entry.min_usage
        /\ LabelledInFloat(own, entry.trend)

(* C20 as claimed: the disk usage trend is a mapping with one entry for every   *)
(* distinct path that has samples in the window, each computed from that path's *)
(* own samples only.                                                            *)
C20_EntryForEveryPath ==
    (report.kind = "trend" /\ report.disk # <<>>) =>
        /\ "disk_usage" \in DOMAIN report.result
        /\ DOMAIN report.result["disk_usage"] = PathsInWindow
        /\ \A p \in PathsInWindow : OwnEntry(p)

(* C20 as amended: the disk usage trend is a mapping with one entry for every   *)
(* distinct path that has at least two samples in the window and none for a     *)
(* path with exactly one; each entry is computed from that path's own samples   *)
(* only: current usage is the path's last sample, max and min are over the      *)
(* path's samples, the trend is from the path's differences.                    *)
C20_PerPathTrend ==
    (report.kind = "trend" /\ report.disk # <<>>) =>
        /\ "disk_usage" \in DOMAIN report.result
        /\ DOMAIN report.result["disk_usage"] =
                {p \in PathsInWindow : Len(PathSeries(p)) >= 2}
        /\ \A p \in DOMAIN report.result["disk_usage"] : OwnEntry(p)

\* Two paths with two samples each, the highest and the last sample of the
\* window being those of "/home".
C20_Witness ==
    /\ report.kind = "trend"
    /\ PathSeries("/") = <<5010, 5000>>
    /\ PathSeries("/home") = <<5000, 5011>>
    /\ DOMAIN report.result["disk_usage"] = {"/", "/home"}
    /\ report.result["disk_usage"]["/"].max_usage = 5010
    /\ report.result["disk_usage"]["/"].current_usage = 5000
    /\ report.result["disk_usage"]["/home"].trend = "increasing"
    /\ report.result["disk_usage"]["/"].trend \in {"stable", "decreasing"}

----------------------------------------------------------------------------
\* The last computation was a cleanup effectiveness analysis (by itself or for
\* the monthly report) and gave a map of paths, not no_data.
IsEffectivenessMap ==
    report.kind \in {"effectiveness", "monthly"} /\ ~IsNoData(report.result)

\* The number of indices i >= 2 of s with s[i] - s[i - 1] < -1 (in hundredths).
DropsOverOnePoint(s) ==
    Cardinality({i \in 2..Len(s) : s[i] - s[i - 1] < 0 - Percent(1)})

(* C21: cleanup_events of a path is the number of successive differences of    *)
(* its timestamp-ordered usage series that are below -1: the first sample      *)
(* contributes none, and a drop of exactly one percentage point is not counted.*)
C21_CleanupEvents ==
    IsEffectivenessMap =>
        \A p \in DOMAIN report.result :
            report.result[p].cleanup_events = DropsOverOnePoint(PathSeries(p))

----------------------------------------------------------------------------
\* The label the rule gives a trend (in hundredths).
RuleEffectiveness(trend) ==
    IF trend < 0 THEN "good"
    ELSE IF trend > Percent(5) THEN "poor"
    ELSE "stable"

(* C22: for every path with at least 2 samples in the window, trend is the     *)
(* last usage_percent minus the first, and the effectiveness label is the one  *)
(* of good (trend < 0), poor (trend > 5) and stable (otherwise, so at trend 0  *)
(* and at trend 5) that the trend calls for.                                   *)
C22_TrendAndLabel ==
    IsEffectivenessMap =>
        \A p \in PathsInWindow :
            Len(PathSeries(p)) >= 2 =>
                /\ p \in DOMAIN report.result
                /\ report.result[p].trend =
                        PathSeries(p)[Len(PathSeries(p))] - PathSeries(p)[1]
                /\ report.result[p].effectiveness =
                        RuleEffectiveness(report.result[p].trend)

----------------------------------------------------------------------------
\* The rows of the report's disk data for path p, in timestamp order.
PathRows(p) == SelectSeq(report.disk, LAMBDA r : r.cols.path = p)

\* Seconds from the first to the last timestamp of path p.
WindowSeconds(p) ==
    PathRows(p)[Len(PathRows(p))].timestamp[1] - PathRows(p)[1].timestamp[1]

\* n = a / b rounded to the nearest integer (b > 0)
IsRounded(n, a, b) == 2 * (n * b - a) <= b /\ 2 * (a - n * b) <= b

\* avg is trend / span rounded to 3 decimals (trend in hundredths, avg in
\* thousandths), where span is the only number of days >= 1 with
\* span days <= seconds < span + 1 days, or 1 when seconds is less than a day.
IsDailyChange(avg, trend, seconds) ==
    \E span \in 1..(1 + seconds \div SecondsPerDay) :
        /\ \/ seconds < SecondsPerDay /\ span = 1
           \/ /\ span * SecondsPerDay <= seconds
              /\ seconds < (span + 1) * SecondsPerDay
        /\ IsRounded(avg, trend * 10, span)

(* C23: avg_daily_change of a path is its trend divided by days_span, the      *)
(* number of whole days between its first and its last timestamp, floored at   *)
(* 1: a window shorter than one day (20 hours, or twice the same timestamp)    *)
(* uses span 1, and a trend of -15 over 3 days gives -5.                       *)
C23_AvgDailyChange ==
    IsEffectivenessMap =>
        \A p \in DOMAIN report.result :
            /\ IsDailyChange(report.result[p].avg_daily_change,
                             report.result[p].trend, WindowSeconds(p))
            /\ WindowSeconds(p) < SecondsPerDay =>
                    report.result[p].avg_daily_change = report.result[p].trend * 10
            /\ (report.result[p].trend = 0 - Percent(15)
                    /\ WindowSeconds(p) = 3 * SecondsPerDay) =>
                    report.result[p].avg_daily_change = 0 - 5000

\* Samples 20 hours apart: a path with four of them (60 hours, 2 whole days)
\* and a trend of -15 has -7.5 a day, and a path with two of them has its whole
\* trend as the daily change.
C23_Witness ==
    /\ report.kind = "effectiveness"
    /\ DOMAIN report.result = {"/", "/home"}
    /\ WindowSeconds("/") = 216000
    /\ report.result["/"].trend = 0 - Percent(15)
    /\ report.result["/"].avg_daily_change = 0 - 7500
    /\ WindowSeconds("/home") = 72000
    /\ report.result["/home"].trend = 501
    /\ report.result["/home"].avg_daily_change = 5010

----------------------------------------------------------------------------
(* C24: the effectiveness map has an entry for a path if and only if the path  *)
(* has at least 2 samples in the window; a path with exactly 1 sample has no   *)
(* entry and the other paths are analysed all the same.                        *)
C24_EntryIffTwoSamples ==
    report.kind \in {"effectiveness", "monthly"} =>
        /\ IsNoData(report.result) <=> report.disk = <<>>
        /\ IsEffectivenessMap =>
            /\ DOMAIN report.result =
                    {p \in PathsInWindow : Len(PathSeries(p)) >= 2}
            /\ \A p \in DOMAIN report.result :
                /\ report.result[p].initial_usage = PathSeries(p)[1]
                /\ report.result[p].final_usage = PathSeries(p)[Len(PathSeries(p))]

\* A store with two samples of "/" and of "/var" and three of "/home", read when
\* the first sample of each has left the window: "/" and "/var" have one sample
\* and no entry, and "/home" is analysed.
C24_Witness ==
    /\ report.kind = "effectiveness"
    /\ PathsInWindow = {"/", "/home", "/var"}
    /\ Len(PathSeries("/")) = 1
    /\ Len(PathSeries("/var")) = 1
    /\ Cardinality(db.disk_usage) = 7
    /\ DOMAIN report.result = {"/home"}
    /\ report.result["/home"].initial_usage = 3899
    /\ report.result["/home"].final_usage = 4100

----------------------------------------------------------------------------
\* The paths of the map that are labelled good.
GoodPaths == {p \in DOMAIN report.result : report.result[p].effectiveness = "good"}

(* C25: for every effectiveness map the monthly report gets from the analysis, *)
(* the one without entries included, the overall rating is Excellent if all    *)
(* the paths of the map are labelled good, Good if not all but more than half  *)
(* of them are, and Needs Improvement otherwise (so when exactly half are).    *)
C25_OverallRating ==
    report.kind = "monthly" =>
        IF IsNoData(report.result) THEN report.rating = ""
        ELSE LET good == Cardinality(GoodPaths)
                 total == Cardinality(DOMAIN report.result)
             IN  /\ good = total => report.rating = "Excellent"
                 /\ (good # total /\ 2 * good > total) => report.rating = "Good"
                 /\ (good # total /\ 2 * good <= total) =>
                        report.rating = "Needs Improvement"
                 /\ (total > 0 /\ 2 * good = total) =>
                        report.rating = "Needs Improvement"

\* A map of three paths of which two are good and one is poor, rated Good.
C25_Witness ==
    /\ report.kind = "monthly"
    /\ DOMAIN report.result = {"/", "/home", "/var"}
    /\ GoodPaths = {"/", "/home"}
    /\ report.result["/var"].effectiveness = "poor"
    /\ report.rating = "Good"

----------------------------------------------------------------------------
\* The invocation ended by an exception.
CycleAborted == pc = "idle" /\ outcome = "raised"

(* C26: at the end of every invocation that ran to completion, the store holds *)
(* no sample row older than retention_days and no alert older than 90 days,    *)
(* and every row the invocation wrote is still there; an invocation that       *)
(* aborted has deleted none of the rows that were in the store before it.      *)
C26_RetentionInvariant ==
    /\ CleanupDone =>
        /\ \A t \in AllTables : \A r \in db[t] :
                ~OlderThan(r, hist.cleaned_at, RetentionOf(t))
        /\ BatchCommitted
        /\ Holds(store_alerts_stmts(alerts), "alerts")
    /\ CycleAborted => \A t \in AllTables : hist.start[t] \subseteq db[t]

====
